---- MODULE Spec2Model ----
(***************************************************************************)
(* Model of the retro-matching backend: the round engine (submission,      *)
(* judge pick, final-round voting), the connectivity handlers and the      *)
(* scoring rule, as implemented under src/app.                             *)
(*                                                                         *)
(* Granularity.  Every REST or socket handler runs in its own database     *)
(* session and nothing in the code serialises handlers of one game.  A     *)
(* handler is therefore a sequence of steps that other handlers may        *)
(* interleave with:                                                        *)
(*   - the validating reads of a service call (one step),                  *)
(*   - its writes and db.session.commit() (one step, in which the tables'  *)
(*     UniqueConstraints are enforced),                                    *)
(*   - the follow-up the handler runs after that commit (one step).        *)
(* A handler in flight occupies a slot of reqs.  A request that fails      *)
(* validation raises before any write: it changes nothing.                 *)
(*                                                                         *)
(* The Player-role participants of a game taken up in play are numbered    *)
(* 1..n in join order.  Only create_game makes a spectator, so a spectator *)
(* is the creator of its game: it joined first and is numbered n+1.  The   *)
(* cards a player authors are numbered (p-1)*HandSize+1 .. p*HandSize; a   *)
(* game taken up in play had every player dealt the cards it authored.     *)
(***************************************************************************)
EXTENDS Integers, FiniteSets, Sequences, TLC

VARIABLES
    game,           \* games row: [phase, current_round_id, creator_id]
    player,         \* players table: id -> [role, join_order, score, is_connected, is_ready]
    card,           \* cards table: id -> [creator_id, holder_id, card_type, text, is_played]
    rounds,         \* rounds table, a sequence indexed by round id
    subs,           \* submissions table: set of [round_id, player_id, card_id]
    votes,          \* votes table: set of [round_id, voter_id, card_id]
    token_to_sid,   \* emitters._token_to_sid: participant -> socket id, 0 = none
    room,           \* the Socket.IO room of the game: the open sockets that joined it
    elsewhere,      \* the rows of another game: [player, card, rounds, subs, votes]
    sent,           \* the snapshot last broadcast to the room, as Some(payload); None
                    \* in the specifications that do not record the broadcasts
    reqs            \* handlers in flight: slot -> request record

vars == <<game, player, card, rounds, subs, votes, token_to_sid, room, elsewhere, sent, reqs>>

----------------------------------------------------------------------------
(* Program constants *)

\* card_service.save_player_cards: exactly 2 cards of each type
CardsPerType == 2

CardType == {"start", "stop", "continue"}

\* cards every player authors, and holds after redistribution
HandSize == CardsPerType * Cardinality(CardType)

\* round_service.MAX_ROUNDS, imported by state_service; the fixed round count N
MAX_ROUNDS == 6

(* Bounds of the model *)

\* handlers that may be in flight at the same time
MaxReq == 2

\* Player-role participants of the small game
NPlayers == 2

\* spectators of the small game
NSpectators == 1

\* the small game is taken up when this many rounds are still to be played
\* before the final round
RoundsLeft == 1

\* participants whose socket is in the room in the game of HandSize players
TieVoters == 3

\* players of the game in which a round has two submitters
NSubmitPlayers == 3

\* participants that join while the game is being set up
MaxJoiners == 1

\* Player-role participants of the lobby that is too small for a start
LobbyPlayers == 1

\* participants that author cards while the game is being set up
MaxAuthors == 2

\* different sets of texts that a request body of POST /cards may carry
MaxTexts == 2

NoId == 0

\* the id of a participant of another game: Player ids are keys of one table,
\* so this is the id of no participant of the game
Outsider == HandSize + NSpectators + MaxJoiners + 1

\* the id of the second socket of participant p's client
OtherSocket(p) == Outsider + p

Idle == [op |-> "idle", pc |-> "idle", who |-> NoId, rid |-> NoId, cid |-> NoId, pid |-> NoId, val |-> 0]

Slots == 1..MaxReq

\* a Python value that may be None: a sequence of no or one element
None == <<>>

Some(x) == <<x>>

----------------------------------------------------------------------------
(* Tables and queries *)

Participants == DOMAIN player

RoundIds == DOMAIN rounds

Cards == DOMAIN card

\* Player.is_spectator
is_spectator(p) == player[p].role = "spectator"

\* the ids of a set of participants, sorted by join_order
RECURSIVE SortByJoinOrder(_)
SortByJoinOrder(S) ==
    IF S = {} THEN <<>>
    ELSE LET first == CHOOSE p \in S : \A q \in S : player[p].join_order <= player[q].join_order
         IN  <<first>> \o SortByJoinOrder(S \ {first})

\* round_service._eligible_players: non-spectators sorted by join_order
_eligible_players == SortByJoinOrder({p \in Participants : ~is_spectator(p)})

EligibleSet == {p \in Participants : ~is_spectator(p)}

SubsOf(rid) == {s \in subs : s.round_id = rid}

VotesOf(rid) == {v \in votes : v.round_id = rid}

\* the held, unplayed cards of a participant
HeldCards(p) == {c \in Cards : card[c].holder_id = p /\ ~card[c].is_played}

\* slots are interchangeable: a new handler takes the first free slot
FreeSlot(s) == reqs[s] = Idle /\ \A t \in Slots : t < s => reqs[t] # Idle

----------------------------------------------------------------------------
(* The games the model takes up.  A game of n players and ns spectators is   *)
(* taken up at the creation of round r0, after the history in which every    *)
(* earlier round was completed in order, every submitter played the lowest   *)
(* card of its hand and the judge picked the submission of the first         *)
(* submitter in join order.                                                  *)

\* _create_round: judge = players[(round_number - 1) % len(players)]
JudgeAt(n, k) == ((k - 1) % n) + 1

\* submissions of player p in the rounds before round r
PriorSubs(n, p, r) == Cardinality({q \in 1..(r - 1) : JudgeAt(n, q) # p})

CardOf(p, i) == (p - 1) * HandSize + i

\* the order in which save_player_cards receives the types
TypeOrder == <<"start", "stop", "continue">>

\* the row of the i-th card that player p authors: CardsPerType cards of each
\* type, held by their author; the text of a card is its own
NewCard(p, i) ==
    [creator_id |-> p, holder_id |-> p,
     card_type |-> TypeOrder[((i - 1) \div CardsPerType) + 1],
     text |-> CardOf(p, i), is_played |-> FALSE]

\* the judge's pick in the history
PickAt(n, k) == IF JudgeAt(n, k) = 1 THEN 2 ELSE 1

\* the last normal round of a game of n players: the round after which every
\* player holds exactly one card, when there is one (n = 2 and n = HandSize)
LastNormalRound(n) == (n * (HandSize - 1)) \div (n - 1)

NewRound(k, judge, final) ==
    [round_number |-> k, judge_id |-> judge, phase |-> "submitting",
     is_final_round |-> final, winner_id |-> NoId, winning_card_id |-> NoId]

\* the row of round k < r0 in the history
HistRound(n, k) ==
    [round_number |-> k, judge_id |-> JudgeAt(n, k), phase |-> "complete",
     is_final_round |-> FALSE, winner_id |-> PickAt(n, k),
     winning_card_id |-> CardOf(PickAt(n, k), PriorSubs(n, PickAt(n, k), k) + 1)]

\* the submissions of the rounds before round r0
HistSubs(n, r0) ==
    {[round_id |-> x[1], player_id |-> x[2],
      card_id |-> CardOf(x[2], PriorSubs(n, x[2], x[1]) + 1)] :
        x \in {y \in (1..(r0 - 1)) \X (1..n) : y[2] # JudgeAt(n, y[1])}}

\* game_service.create_game: the creator is the spectator if there is one
Creator(n, ns) == IF ns > 0 THEN n + 1 ELSE 1

\* the players table after the rounds before r0; conn are the connected ones
HistPlayers(n, ns, r0, conn) ==
    [p \in 1..(n + ns) |->
        [role |-> IF p <= n THEN "player" ELSE "spectator",
         join_order |-> IF p <= n THEN p - 1 + ns ELSE p - n - 1,
         score |-> Cardinality({k \in 1..(r0 - 1) : PickAt(n, k) = p}),
         is_connected |-> p \in conn,
         is_ready |-> p <= n]]

\* another game, which its creator, the participant Outsider, has started:
\* its second participant has authored cards, the creator has not
OtherGame ==
    [player |-> [o \in {Outsider, Outsider + 1} |->
                    [role |-> "player", join_order |-> o - Outsider, score |-> 0,
                     is_connected |-> TRUE, is_ready |-> FALSE]],
     card |-> [c \in {CardOf(Outsider + 1, i) : i \in 1..HandSize} |->
                    NewCard(Outsider + 1, c - CardOf(Outsider + 1, 0))],
     rounds |-> <<>>,
     subs |-> {},
     votes |-> {}]

\* the cards table when player p has played its first played[p] cards
HistCards(n, played) ==
    [c \in 1..(n * HandSize) |->
        LET p == ((c - 1) \div HandSize) + 1
            i == c - (p - 1) * HandSize
        IN  IF i <= played[p]
            THEN [NewCard(p, i) EXCEPT !.holder_id = NoId, !.is_played = TRUE]
            ELSE NewCard(p, i)]

\* the game at the creation of round r0 (_create_round has just committed)
InitGame(n, ns, r0, conn) ==
    LET played == [p \in 1..n |-> PriorSubs(n, p, r0)]
    IN
    /\ game = [phase |-> "playing", current_round_id |-> r0, creator_id |-> Creator(n, ns)]
    /\ player = HistPlayers(n, ns, r0, conn)
    /\ card = HistCards(n, played)
    /\ rounds = [k \in 1..r0 |->
                   IF k < r0 THEN HistRound(n, k) ELSE NewRound(r0, JudgeAt(n, r0), FALSE)]
    /\ subs = HistSubs(n, r0)
    /\ votes = {}
    /\ token_to_sid = [p \in 1..(n + ns) |-> IF p \in conn THEN p ELSE NoId]
    /\ room = {p \in 1..(n + ns) : p \in conn}
    /\ elsewhere = OtherGame
    /\ reqs = [s \in Slots |-> Idle]

\* the game at the creation of its final round, after the last normal round
\* (create_final_round has just committed): every player's last card is
\* submitted and the round is revealed
InitFinal(n, ns, conn) ==
    LET last == LastNormalRound(n)
        played == [p \in 1..n |-> PriorSubs(n, p, last + 1) + 1]
    IN
    /\ game = [phase |-> "final_round", current_round_id |-> last + 1, creator_id |-> Creator(n, ns)]
    /\ player = HistPlayers(n, ns, last + 1, conn)
    /\ card = HistCards(n, played)
    /\ rounds = [k \in 1..(last + 1) |->
                   IF k <= last THEN HistRound(n, k)
                   ELSE [NewRound(last + 1, NoId, TRUE) EXCEPT !.phase = "revealed"]]
    /\ subs = HistSubs(n, last + 1)
                \cup {[round_id |-> last + 1, player_id |-> p,
                       card_id |-> CardOf(p, played[p])] : p \in 1..n}
    /\ votes = {}
    /\ token_to_sid = [p \in 1..(n + ns) |-> IF p \in conn THEN p ELSE NoId]
    /\ room = {p \in 1..(n + ns) : p \in conn}
    /\ elsewhere = OtherGame
    /\ reqs = [s \in Slots |-> Idle]

\* the small game, RoundsLeft rounds before its final round
Init ==
    /\ InitGame(NPlayers, NSpectators, LastNormalRound(NPlayers) - RoundsLeft + 1,
                1..(NPlayers + NSpectators))
    /\ sent = None

-----------------------------------------------------------------------------
(* What the participants are sent: the public snapshot that emit_game_state  *)
(* broadcasts to the room, and the private hand.  A Python value that may be *)
(* None is a sequence of no or one element; display names, the game code and *)
(* the adjective are not part of the model.                                  *)

\* state_service.build_game_state_payload, the players
players_data ==
    LET ps == SortByJoinOrder(Participants)
    IN  [i \in 1..Len(ps) |->
            [id |-> ps[i], role |-> player[ps[i]].role,
             join_order |-> player[ps[i]].join_order, score |-> player[ps[i]].score,
             is_connected |-> player[ps[i]].is_connected,
             is_ready |-> player[ps[i]].is_ready,
             card_count |-> Cardinality(HeldCards(ps[i]))]]

\* state_service._build_submission_status
_build_submission_status(rid) ==
    LET ps == _eligible_players
    IN  [i \in 1..Len(ps) |->
            [player_id |-> ps[i],
             has_submitted |-> \E x \in SubsOf(rid) : x.player_id = ps[i]]]

\* state_service._build_vote_status
_build_vote_status(rid) ==
    LET ps == _eligible_players
    IN  [i \in 1..Len(ps) |->
            [player_id |-> ps[i],
             has_voted |-> \E v \in VotesOf(rid) : v.voter_id = ps[i]]]

\* state_service._build_revealed_submissions with the submitter in every entry
_build_revealed_submissions_attributed(rid) ==
    {[submission_id |-> <<x.round_id, x.card_id>>, card_id |-> x.card_id,
      card_type |-> card[x.card_id].card_type, card_text |-> card[x.card_id].text,
      player_id |-> x.player_id] : x \in SubsOf(rid)}

\* state_service._build_revealed_submissions; the id of a submissions row is
\* the round and the card of the row
_build_revealed_submissions(rid) ==
    {[submission_id |-> <<x.round_id, x.card_id>>, card_id |-> x.card_id,
      card_type |-> card[x.card_id].card_type, card_text |-> card[x.card_id].text] :
        x \in SubsOf(rid)}

\* the tally of a round: card -> number of votes
vote_counts(rid) ==
    [c \in {v.card_id : v \in VotesOf(rid)} |->
        Cardinality({v \in VotesOf(rid) : v.card_id = c})]

\* the cards that have the maximum tally
winning_card_ids(rid) ==
    LET vc == vote_counts(rid)
    IN  {c \in DOMAIN vc : \A d \in DOMAIN vc : vc[d] <= vc[c]}

\* state_service._compute_winners
_compute_winners(rid) ==
    IF VotesOf(rid) = {}
    THEN [winning_card_ids |-> {}, winner_player_ids |-> {}]
    ELSE [winning_card_ids |-> winning_card_ids(rid),
          winner_player_ids |-> {x.player_id : x \in {y \in SubsOf(rid) :
                                                        y.card_id \in winning_card_ids(rid)}}]

\* the revealed submissions, built whatever the phase of the round
revealed_unguarded(rid) == Some(_build_revealed_submissions(rid))

\* build_game_state_payload: the revealed submissions of the current round
revealed(rid) ==
    IF rounds[rid].phase # "submitting" THEN Some(_build_revealed_submissions(rid)) ELSE None

\* build_game_state_payload: the current round
current_round_data ==
    LET rid == game.current_round_id IN
    IF rid \notin RoundIds THEN None
    ELSE LET winners == IF rounds[rid].phase = "complete" THEN _compute_winners(rid)
                        ELSE [winning_card_ids |-> {}, winner_player_ids |-> {}]
         IN  Some([id |-> rid, round_number |-> rounds[rid].round_number,
                   phase |-> rounds[rid].phase,
                   submission_status |-> _build_submission_status(rid),
                   revealed_submissions |-> revealed(rid),
                   vote_status |-> IF rounds[rid].phase = "revealed"
                                   THEN Some(_build_vote_status(rid)) ELSE None,
                   winning_card_ids |-> winners.winning_card_ids,
                   winner_player_ids |-> winners.winner_player_ids,
                   total_rounds |-> MAX_ROUNDS])

\* state_service.build_game_state_payload
build_game_state_payload ==
    [type |-> "game_state_updated",
     game |-> [phase |-> game.phase, creator_id |-> game.creator_id,
               players |-> players_data, current_round |-> current_round_data]]

\* a broadcast of the payload that was built before the writes of the step
emit_game_state_built_before ==
    sent' = IF sent = None THEN None ELSE Some(build_game_state_payload)

\* emitters.emit_game_state: the payload is built from the tables as they are
\* when the handler gets here, after its commits, and broadcast to the room
emit_game_state ==
    sent' = IF sent = None THEN None ELSE Some(build_game_state_payload')

\* state_service.build_hand_payload
build_hand_payload(p) ==
    [type |-> "your_cards_updated",
     cards |-> {[id |-> c, card_type |-> card[c].card_type, text |-> card[c].text] :
                   c \in HeldCards(p)}]

\* the hand of p, emitted to every socket that is registered
emit_hand_to_room(p) ==
    {[to |-> token_to_sid[q], payload |-> build_hand_payload(p)] :
        q \in {r \in Participants : token_to_sid[r] # NoId}}

\* emitters.emit_hand_to_player: the messages that are emitted
emit_hand_to_player(p) ==
    IF token_to_sid[p] # NoId
    THEN {[to |-> token_to_sid[p], payload |-> build_hand_payload(p)]}
    ELSE {}

\* game_service.get_game_state_for_player: the response to a request that
\* auth.require_auth authenticated as p
get_game_state_for_player(p) ==
    [state |-> build_game_state_payload, my_cards |-> build_hand_payload(p).cards]

----------------------------------------------------------------------------
(* Submitting a card: POST /games/<code>/rounds/<id>/submit *)

\* round_service.submit_card, the validation: the error it raises, or "ok".
\* A round id that is not a round of the game is refused by games._get_round.
submit_card_check(p, rid, c) ==
    IF rid \notin RoundIds THEN "PHASE_MISMATCH"
    ELSE IF rounds[rid].phase # "submitting" THEN "PHASE_MISMATCH"
    ELSE IF is_spectator(p) THEN "FORBIDDEN"
    ELSE IF ~rounds[rid].is_final_round /\ p = rounds[rid].judge_id THEN "FORBIDDEN"
    ELSE IF \E x \in subs : x.round_id = rid /\ x.player_id = p THEN "ALREADY_SUBMITTED"
    ELSE IF c \notin Cards \/ card[c].holder_id # p \/ card[c].is_played THEN "INVALID_CARD"
    ELSE "ok"

\* a submissions table without the constraint
uq_round_player_submission_absent(rid, p) == TRUE

\* UniqueConstraint("round_id", "player_id") of the submissions table: may a
\* row for (rid, p) be inserted
uq_round_player_submission(rid, p) ==
    ~\E x \in subs : x.round_id = rid /\ x.player_id = p

\* round_service.check_all_submitted
check_all_submitted(rid) ==
    LET players == _eligible_players
        submitters == {i \in 1..Len(players) : players[i] # rounds[rid].judge_id}
        submitted_count == Cardinality(SubsOf(rid))
    IN  submitted_count >= Cardinality(submitters)

\* round_service.reveal_round
reveal_round(rid) == [rounds EXCEPT ![rid].phase = "revealed"]

\* the request arrives and is validated; a refused request changes nothing
SubmitStart(s, p, rid, c) ==
    /\ FreeSlot(s)
    /\ IF submit_card_check(p, rid, c) = "ok"
       THEN reqs' = [reqs EXCEPT ![s] = [Idle EXCEPT !.op = "submit", !.pc = "commit",
                                                      !.who = p, !.rid = rid, !.cid = c]]
       ELSE UNCHANGED reqs
    /\ UNCHANGED <<game, player, card, rounds, subs, votes, token_to_sid, room, elsewhere, sent>>

\* the card is marked played and the Submission row inserted; the commit fails
\* as a whole (IntegrityError) when the row exists by now
SubmitCommit(s) ==
    LET r == reqs[s] IN
    /\ r.op = "submit" /\ r.pc = "commit"
    /\ IF uq_round_player_submission(r.rid, r.who)
       THEN /\ card' = [card EXCEPT ![r.cid].holder_id = NoId, ![r.cid].is_played = TRUE]
            /\ subs' = subs \cup {[round_id |-> r.rid, player_id |-> r.who, card_id |-> r.cid]}
            /\ reqs' = [reqs EXCEPT ![s].pc = "check"]
       ELSE /\ reqs' = [reqs EXCEPT ![s] = Idle]
            /\ UNCHANGED <<card, subs>>
    /\ UNCHANGED <<game, player, rounds, votes, token_to_sid, room, elsewhere, sent>>

\* games.submit_card after the commit: reveal when all have submitted
SubmitCheck(s) ==
    LET r == reqs[s] IN
    /\ r.op = "submit" /\ r.pc = "check"
    /\ rounds' = IF check_all_submitted(r.rid) THEN reveal_round(r.rid) ELSE rounds
    /\ reqs' = [reqs EXCEPT ![s] = Idle]
    /\ UNCHANGED <<game, player, card, subs, votes, token_to_sid, room, elsewhere>>
    /\ emit_game_state

----------------------------------------------------------------------------
(* The judge picks the winner: POST /games/<code>/rounds/<id>/pick-winner *)

\* round_service.pick_winner, the validation; the submission is named by its
\* row x (NoSubmission for an id that names no row)
pick_winner_check_anyone(p, rid, x) ==
    IF rid \notin RoundIds THEN "PHASE_MISMATCH"
    ELSE IF rounds[rid].phase # "revealed" THEN "PHASE_MISMATCH"
    ELSE IF x \notin subs \/ x.round_id # rid THEN "INVALID_CARD"
    ELSE "ok"

\* round_service.pick_winner, the validation
pick_winner_check(p, rid, x) ==
    IF rid \notin RoundIds THEN "PHASE_MISMATCH"
    ELSE IF rounds[rid].phase # "revealed" THEN "PHASE_MISMATCH"
    ELSE IF p # rounds[rid].judge_id THEN "FORBIDDEN"
    ELSE IF x \notin subs \/ x.round_id # rid THEN "INVALID_CARD"
    ELSE "ok"

PickStart(s, p, rid, x) ==
    /\ FreeSlot(s)
    /\ IF pick_winner_check(p, rid, x) = "ok"
       THEN reqs' = [reqs EXCEPT ![s] = [Idle EXCEPT !.op = "pick", !.pc = "commit",
                                                      !.who = p, !.rid = rid,
                                                      !.cid = x.card_id, !.pid = x.player_id,
                                                      !.val = player[x.player_id].score]]
       ELSE UNCHANGED reqs
    /\ UNCHANGED <<game, player, card, rounds, subs, votes, token_to_sid, room, elsewhere, sent>>

\* winner.score += 1 on the row as it was loaded; the round is completed
PickCommit(s) ==
    LET r == reqs[s] IN
    /\ r.op = "pick" /\ r.pc = "commit"
    /\ player' = [player EXCEPT ![r.pid].score = r.val + 1]
    /\ rounds' = [rounds EXCEPT ![r.rid].winner_id = r.pid,
                                ![r.rid].winning_card_id = r.cid,
                                ![r.rid].phase = "complete"]
    /\ reqs' = [reqs EXCEPT ![s].pc = "next"]
    /\ UNCHANGED <<game, card, subs, votes, token_to_sid, room, elsewhere, sent>>

\* round_service.should_trigger_final_round
should_trigger_final_round ==
    /\ \A p \in EligibleSet : Cardinality(HeldCards(p)) = 1
    /\ Len(_eligible_players) > 0

\* max(Round.round_number) of the game, or 0
last_round_number ==
    IF RoundIds = {} THEN 0
    ELSE CHOOSE m \in {rounds[i].round_number : i \in RoundIds} :
             \A i \in RoundIds : rounds[i].round_number <= m

\* round_service._create_round: the new rounds table
_create_round(round_number) ==
    LET players == _eligible_players
        judge == players[((round_number - 1) % Len(players)) + 1]
    IN  Append(rounds, NewRound(round_number, judge, FALSE))

\* round_service.create_next_round
create_next_round ==
    /\ rounds' = _create_round(last_round_number + 1)
    /\ game' = [game EXCEPT !.current_round_id = Len(rounds) + 1]
    /\ UNCHANGED <<card, subs>>

\* round_service.create_final_round: every player's remaining card is submitted
create_final_round ==
    LET rid == Len(rounds) + 1
        last(p) == HeldCards(p)
        auto == {p \in EligibleSet : last(p) # {}}
        last_card(p) == CHOOSE c \in last(p) : TRUE
    IN
    /\ rounds' = Append(rounds, [NewRound(last_round_number + 1, NoId, TRUE)
                                    EXCEPT !.phase = "revealed"])
    /\ game' = [game EXCEPT !.current_round_id = rid, !.phase = "final_round"]
    /\ card' = [c \in Cards |->
                  IF \E p \in auto : c = last_card(p)
                  THEN [card[c] EXCEPT !.holder_id = NoId, !.is_played = TRUE] ELSE card[c]]
    /\ subs' = subs \cup {[round_id |-> rid, player_id |-> p, card_id |-> last_card(p)] : p \in auto}

\* games.pick_winner after the commit: the final round or the next round
PickNext(s) ==
    LET r == reqs[s] IN
    /\ r.op = "pick" /\ r.pc = "next"
    /\ IF should_trigger_final_round THEN create_final_round ELSE create_next_round
    /\ reqs' = [reqs EXCEPT ![s] = Idle]
    /\ UNCHANGED <<player, votes, token_to_sid, room, elsewhere>>
    /\ emit_game_state

----------------------------------------------------------------------------
(* Voting: POST /games/<code>/rounds/<id>/vote *)

\* record_vote without the check of the round's phase
record_vote_check_any_phase(p, rid, c) ==
    IF rid \notin RoundIds THEN "PHASE_MISMATCH"
    ELSE IF ~rounds[rid].is_final_round THEN "PHASE_MISMATCH"
    ELSE IF \E v \in votes : v.round_id = rid /\ v.voter_id = p THEN "ALREADY_SUBMITTED"
    ELSE IF ~\E x \in subs : x.round_id = rid /\ x.card_id = c THEN "INVALID_CARD"
    ELSE "ok"

\* vote_service.record_vote, the validation
record_vote_check(p, rid, c) ==
    IF rid \notin RoundIds THEN "PHASE_MISMATCH"
    ELSE IF ~rounds[rid].is_final_round THEN "PHASE_MISMATCH"
    ELSE IF rounds[rid].phase # "revealed" THEN "PHASE_MISMATCH"
    ELSE IF \E v \in votes : v.round_id = rid /\ v.voter_id = p THEN "ALREADY_SUBMITTED"
    ELSE IF ~\E x \in subs : x.round_id = rid /\ x.card_id = c THEN "INVALID_CARD"
    ELSE "ok"

\* a votes table without the constraint
uq_round_voter_vote_absent(rid, p) == TRUE

\* UniqueConstraint("round_id", "voter_id") of the votes table
uq_round_voter_vote(rid, p) ==
    ~\E v \in votes : v.round_id = rid /\ v.voter_id = p

\* vote_service.all_voted: every connected participant of the game counts
all_voted(rid) ==
    LET connected_count == Cardinality({p \in Participants : player[p].is_connected})
        voted_count == Cardinality(VotesOf(rid))
    IN  voted_count >= connected_count

\* may this many tied cards score: the tie-breaking rule of tally_and_finish
tie_scores(k) == k = 1 \/ k = 2

\* the submissions whose player tally_and_finish awards a point
winning_submissions(rid) ==
    IF VotesOf(rid) # {} /\ tie_scores(Cardinality(winning_card_ids(rid)))
    THEN {x \in SubsOf(rid) : x.card_id \in winning_card_ids(rid)}
    ELSE {}

\* vote_service.tally_and_finish
tally_and_finish(rid) ==
    /\ player' = [p \in Participants |->
                    [player[p] EXCEPT !.score =
                        @ + Cardinality({x \in winning_submissions(rid) : x.player_id = p})]]
    /\ rounds' = [rounds EXCEPT ![rid].phase = "complete"]
    /\ game' = [game EXCEPT !.phase = "finished"]

VoteStart(s, p, rid, c) ==
    /\ FreeSlot(s)
    /\ IF record_vote_check(p, rid, c) = "ok"
       THEN reqs' = [reqs EXCEPT ![s] = [Idle EXCEPT !.op = "vote", !.pc = "commit",
                                                      !.who = p, !.rid = rid, !.cid = c]]
       ELSE UNCHANGED reqs
    /\ UNCHANGED <<game, player, card, rounds, subs, votes, token_to_sid, room, elsewhere, sent>>

\* the Vote row is inserted; IntegrityError when the voter has a row by now
VoteCommit(s) ==
    LET r == reqs[s] IN
    /\ r.op = "vote" /\ r.pc = "commit"
    /\ IF uq_round_voter_vote(r.rid, r.who)
       THEN /\ votes' = votes \cup {[round_id |-> r.rid, voter_id |-> r.who, card_id |-> r.cid]}
            /\ reqs' = [reqs EXCEPT ![s].pc = "check"]
       ELSE /\ reqs' = [reqs EXCEPT ![s] = Idle]
            /\ UNCHANGED votes
    /\ UNCHANGED <<game, player, card, rounds, subs, token_to_sid, room, elsewhere, sent>>

\* games.vote after the commit: tally when all connected participants voted
VoteCheck(s) ==
    LET r == reqs[s] IN
    /\ r.op = "vote" /\ r.pc = "check"
    /\ IF all_voted(r.rid)
       THEN tally_and_finish(r.rid)
       ELSE UNCHANGED <<game, player, rounds>>
    /\ reqs' = [reqs EXCEPT ![s] = Idle]
    /\ UNCHANGED <<card, subs, votes, token_to_sid, room, elsewhere>>
    /\ emit_game_state

----------------------------------------------------------------------------
(* Connectivity: the socket handlers.  The first socket of participant p's    *)
(* client has the id p, a second one the id OtherSocket(p).                  *)

\* the sockets that the clients of participant p open
Sockets(p) == {p, OtherSocket(p)}

\* emitters.register_socket
register_socket(p, sid) == [token_to_sid EXCEPT ![p] = sid]

\* emitters.unregister_socket: the entry of the token that maps to the socket
\* is removed, when there is one
unregister_socket(sid) ==
    [q \in DOMAIN token_to_sid |-> IF token_to_sid[q] = sid THEN NoId ELSE token_to_sid[q]]

\* a join that re-evaluates the voting quorum of the current round
JoinRoom_rechecking(p, sid) ==
    LET rid == game.current_round_id IN
    /\ room' = room \cup {sid}
    /\ token_to_sid' = register_socket(p, sid)
    /\ player' = [player EXCEPT ![p].is_connected = TRUE]
    /\ rounds' = IF rid \in RoundIds /\ rounds[rid].phase = "revealed" /\ all_voted(rid)
                 THEN [rounds EXCEPT ![rid].phase = "complete"] ELSE rounds
    /\ UNCHANGED <<game, card, subs, votes, elsewhere, reqs, sent>>

\* handlers.handle_join_game_room, sent by socket sid with the token of p
JoinRoom(p, sid) ==
    /\ room' = room \cup {sid}
    /\ token_to_sid' = register_socket(p, sid)
    /\ player' = [player EXCEPT ![p].is_connected = TRUE]
    /\ UNCHANGED <<game, card, rounds, subs, votes, elsewhere, reqs, sent>>

\* handlers.handle_leave_game_room, sent by socket sid with the token of p:
\* no round is looked at
LeaveRoom(p, sid) ==
    /\ room' = room \ {sid}
    /\ token_to_sid' = unregister_socket(sid)
    /\ player' = [player EXCEPT ![p].is_connected = FALSE]
    /\ UNCHANGED <<game, card, rounds, subs, votes, elsewhere, reqs, sent>>

\* handlers.handle_disconnect of socket sid up to its commit; a socket that is
\* not registered is ignored
Disconnect(s, sid) ==
    /\ FreeSlot(s)
    /\ sid \in room
    /\ room' = room \ {sid}
    /\ token_to_sid' = unregister_socket(sid)
    /\ IF \E p \in Participants : token_to_sid[p] = sid
       THEN LET p == CHOOSE q \in Participants : token_to_sid[q] = sid IN
            /\ player' = [player EXCEPT ![p].is_connected = FALSE]
            /\ reqs' = [reqs EXCEPT ![s] = [Idle EXCEPT !.op = "disconnect",
                                                        !.pc = "recheck", !.who = p]]
       ELSE UNCHANGED <<player, reqs>>
    /\ UNCHANGED <<game, card, rounds, subs, votes, elsewhere, sent>>

\* round_service.begin_voting: Submitting -> Voting, a check-and-set on the phase
begin_voting(rid) ==
    IF rounds[rid].phase = "submitting" THEN [rounds EXCEPT ![rid].phase = "revealed"] ELSE rounds

\* vote_service.tally_round, the resolution of a round: every card tied at the
\* maximum wins and its submitter scores; the round is Complete; after round N
\* the game is Finished, else the next round is created.  A check-and-set on
\* the phase.
tally_round(rid) ==
    IF rounds[rid].phase # "revealed"
    THEN UNCHANGED <<game, player, rounds>>
    ELSE LET winners == {x \in SubsOf(rid) : x.card_id \in winning_card_ids(rid)}
             done == [rounds EXCEPT ![rid].phase = "complete"]
             n == rounds[rid].round_number + 1
             players == _eligible_players
         IN
         /\ player' = [p \in Participants |->
                         [player[p] EXCEPT !.score =
                             @ + Cardinality({x \in winners : x.player_id = p})]]
         /\ IF rounds[rid].round_number >= MAX_ROUNDS
            THEN /\ rounds' = done
                 /\ game' = [game EXCEPT !.phase = "finished"]
            ELSE /\ rounds' = Append(done,
                                 NewRound(n, players[((n - 1) % Len(players)) + 1], FALSE))
                 /\ game' = [game EXCEPT !.current_round_id = Len(rounds) + 1]

\* handlers._check_round_progress_after_disconnect; RoundPhase.VOTING is the
\* phase after submitting, which models/round.py writes "revealed"
_check_round_progress_after_disconnect(rid) ==
    IF rounds[rid].phase = "submitting"
    THEN /\ rounds' = IF check_all_submitted(rid) THEN begin_voting(rid) ELSE rounds
         /\ UNCHANGED <<game, player>>
    ELSE IF rounds[rid].phase = "revealed" /\ all_voted(rid)
    THEN tally_round(rid)
    ELSE UNCHANGED <<game, player, rounds>>

\* handlers.handle_disconnect after its commit
DisconnectRecheck(s) ==
    LET r == reqs[s] IN
    /\ r.op = "disconnect" /\ r.pc = "recheck"
    /\ IF game.phase = "playing" /\ game.current_round_id # NoId
       THEN _check_round_progress_after_disconnect(game.current_round_id)
       ELSE UNCHANGED <<game, player, rounds>>
    /\ reqs' = [reqs EXCEPT ![s] = Idle]
    /\ UNCHANGED <<card, subs, votes, token_to_sid, room, elsewhere>>
    /\ IF /\ game.phase = "playing" /\ game.current_round_id # NoId
          /\ LET rid == game.current_round_id IN
             \/ rounds[rid].phase = "submitting" /\ check_all_submitted(rid)
             \/ rounds[rid].phase = "revealed" /\ all_voted(rid)
       THEN emit_game_state
       ELSE UNCHANGED sent

----------------------------------------------------------------------------
(* The inputs of requests.  A request that names anything else is refused by *)
(* the validation like the refused ones drawn here, and changes nothing.     *)

\* round ids a client names: the game's current round and every open round
RoundInputs == {game.current_round_id} \cup {rid \in RoundIds : rounds[rid].phase # "complete"}

\* card ids a participant names when submitting: a card of its hand, or no card
SubmitCardInputs(p) == HeldCards(p) \cup {NoId}

\* card ids a participant names when voting: a card submitted in the round, or
\* no card
VoteCardInputs(rid) == {x.card_id : x \in SubsOf(rid)} \cup {NoId}

\* a submission id that names no row
NoSubmission == [round_id |-> NoId, player_id |-> NoId, card_id |-> NoId]

\* submissions a judge names: a row of the round, or none
SubmissionInputs(rid) == SubsOf(rid) \cup {NoSubmission}

Next ==
    \/ \E s \in Slots, p \in Participants, rid \in RoundInputs :
           \E c \in SubmitCardInputs(p) : SubmitStart(s, p, rid, c)
    \/ \E s \in Slots : SubmitCommit(s)
    \/ \E s \in Slots : SubmitCheck(s)
    \/ \E s \in Slots, p \in Participants, rid \in RoundInputs :
           \E x \in SubmissionInputs(rid) : PickStart(s, p, rid, x)
    \/ \E s \in Slots : PickCommit(s)
    \/ \E s \in Slots : PickNext(s)
    \/ \E s \in Slots, p \in Participants, rid \in RoundInputs :
           \E c \in VoteCardInputs(rid) : VoteStart(s, p, rid, c)
    \/ \E s \in Slots : VoteCommit(s)
    \/ \E s \in Slots : VoteCheck(s)
    \/ \E p \in Participants : JoinRoom(p, p)
    \/ \E p \in Participants : LeaveRoom(p, p)
    \/ \E s \in Slots, p \in Participants : Disconnect(s, p)
    \/ \E s \in Slots : DisconnectRecheck(s)

Spec == Init /\ [][Next]_vars

----------------------------------------------------------------------------
(* The game of HandSize players, in which the final round has a submission   *)
(* of every player, taken up at the creation of its final round.  The first  *)
(* TieVoters players are in the room, and they are the ones that vote; the   *)
(* others have left it.                                                      *)

InitTie == InitFinal(HandSize, 0, 1..TieVoters) /\ sent = None

InRoom == {p \in Participants : player[p].is_connected}

NextTie ==
    \/ \E s \in Slots, p \in InRoom, rid \in RoundInputs :
           \E c \in VoteCardInputs(rid) : VoteStart(s, p, rid, c)
    \/ \E s \in Slots : VoteCommit(s)
    \/ \E s \in Slots : VoteCheck(s)

SpecTie == InitTie /\ [][NextTie]_vars

----------------------------------------------------------------------------
(* The small game taken up at the creation of its final round: voting and    *)
(* connectivity.                                                             *)

InitVoting == InitFinal(NPlayers, NSpectators, 1..(NPlayers + NSpectators)) /\ sent = None

NextVoting ==
    \/ \E s \in Slots, p \in Participants, rid \in RoundInputs :
           \E c \in VoteCardInputs(rid) : VoteStart(s, p, rid, c)
    \/ \E s \in Slots : VoteCommit(s)
    \/ \E s \in Slots : VoteCheck(s)
    \/ \E p \in Participants : JoinRoom(p, p)
    \/ \E p \in Participants : LeaveRoom(p, p)
    \/ \E s \in Slots, p \in Participants : Disconnect(s, p)
    \/ \E s \in Slots : DisconnectRecheck(s)

SpecVoting == InitVoting /\ [][NextVoting]_vars

\* the final round with the requests of every token that require_auth accepts:
\* the token of a participant of another game is accepted on this game's URLs
NextAnyToken ==
    \/ \E s \in Slots, p \in Participants \cup {Outsider}, rid \in RoundInputs :
           \E c \in VoteCardInputs(rid) : VoteStart(s, p, rid, c)
    \/ \E s \in Slots : VoteCommit(s)
    \/ \E s \in Slots : VoteCheck(s)
    \/ \E p \in Participants : JoinRoom(p, p)
    \/ \E p \in Participants : LeaveRoom(p, p)
    \/ \E s \in Slots, p \in Participants : Disconnect(s, p)
    \/ \E s \in Slots : DisconnectRecheck(s)

SpecAnyToken == InitVoting /\ [][NextAnyToken]_vars

\* the final round while the clients open, join with, leave with and close
\* either of their sockets
NextSockets ==
    \/ \E s \in Slots, p \in Participants, rid \in RoundInputs :
           \E c \in VoteCardInputs(rid) : VoteStart(s, p, rid, c)
    \/ \E s \in Slots : VoteCommit(s)
    \/ \E s \in Slots : VoteCheck(s)
    \/ \E p \in Participants : \E sid \in Sockets(p) : JoinRoom(p, sid)
    \/ \E p \in Participants : \E sid \in Sockets(p) : sid \in room /\ LeaveRoom(p, sid)
    \/ \E s \in Slots, p \in Participants : \E sid \in Sockets(p) : Disconnect(s, sid)
    \/ \E s \in Slots : DisconnectRecheck(s)

\* the final round of the game of the players alone, all connected
InitSockets == InitFinal(NPlayers, 0, 1..NPlayers) /\ sent = None

SpecSockets == InitSockets /\ [][NextSockets]_vars

----------------------------------------------------------------------------
(* The game of three players, in which a round has two submitters and no     *)
(* final round comes about, taken up in the round in which the last cards    *)
(* are submitted: submitting, picking and leaving the room.                  *)

\* the round in which the last cards of a game of n players are submitted
LastCardRound(n) == (n * HandSize) \div (n - 1)

InitSubmit ==
    InitGame(NSubmitPlayers, 0, LastCardRound(NSubmitPlayers), 1..NSubmitPlayers) /\ sent = None

NextSubmit ==
    \/ \E s \in Slots, p \in Participants, rid \in RoundInputs :
           \E c \in SubmitCardInputs(p) : SubmitStart(s, p, rid, c)
    \/ \E s \in Slots : SubmitCommit(s)
    \/ \E s \in Slots : SubmitCheck(s)
    \/ \E s \in Slots, p \in Participants, rid \in RoundInputs :
           \E x \in SubmissionInputs(rid) : PickStart(s, p, rid, x)
    \/ \E s \in Slots : PickCommit(s)
    \/ \E s \in Slots : PickNext(s)
    \/ \E p \in Participants : LeaveRoom(p, p)

SpecSubmit == InitSubmit /\ [][NextSubmit]_vars

\* the same game with the broadcasts recorded: the room has been sent the
\* snapshot of the round that was just created
InitBroadcast ==
    /\ InitGame(NSubmitPlayers, 0, LastCardRound(NSubmitPlayers), 1..NSubmitPlayers)
    /\ sent = Some(build_game_state_payload)

SpecBroadcast == InitBroadcast /\ [][NextSubmit]_vars

----------------------------------------------------------------------------
(* The game of three players with everybody in the room: every connected     *)
(* player keeps sending the requests that are permitted and every handler    *)
(* runs to its end.  No final round comes about in this game, so no vote is  *)
(* ever accepted.                                                            *)

NextPlay ==
    \/ \E s \in Slots, p \in Participants, rid \in RoundInputs :
           \E c \in SubmitCardInputs(p) : SubmitStart(s, p, rid, c)
    \/ \E s \in Slots : SubmitCommit(s)
    \/ \E s \in Slots : SubmitCheck(s)
    \/ \E s \in Slots, p \in Participants, rid \in RoundInputs :
           \E x \in SubmissionInputs(rid) : PickStart(s, p, rid, x)
    \/ \E s \in Slots : PickCommit(s)
    \/ \E s \in Slots : PickNext(s)

SpecPlay == InitSubmit /\ [][NextPlay]_vars /\ WF_vars(NextPlay)

-----------------------------------------------------------------------------
(* Setting a game up: lobby -> card_creation -> playing.  The requests are   *)
(* POST /games/<code>/join, /start, /cards, /ready and /begin.               *)

\* the lobby of a game that n players and ns spectators have joined
InitSetup(n, ns) ==
    /\ game = [phase |-> "lobby", current_round_id |-> NoId, creator_id |-> Creator(n, ns)]
    /\ player = [p \in 1..(n + ns) |->
                    [HistPlayers(n, ns, 1, 1..(n + ns))[p] EXCEPT !.is_ready = FALSE]]
    /\ card = <<>>
    /\ rounds = <<>>
    /\ subs = {}
    /\ votes = {}
    /\ token_to_sid = [p \in 1..(n + ns) |-> p]
    /\ room = 1..(n + ns)
    /\ elsewhere = OtherGame
    /\ reqs = [s \in Slots |-> Idle]

\* game_service.join_game, the validation (the requested name is a new one)
join_game_check == IF game.phase # "lobby" THEN "PHASE_MISMATCH" ELSE "ok"

\* join_game reads next_order, the number of participants, with its validation
JoinGameStart(s) ==
    /\ FreeSlot(s)
    /\ Len(player) < NPlayers + NSpectators + MaxJoiners
    /\ reqs' = IF join_game_check = "ok"
               THEN [reqs EXCEPT ![s] = [Idle EXCEPT !.op = "join", !.pc = "commit",
                                                     !.val = Len(player)]]
               ELSE reqs
    /\ UNCHANGED <<game, player, card, rounds, subs, votes, token_to_sid, room, elsewhere, sent>>

\* join_game: the new Player-role row is added and committed
JoinGameCommit(s) ==
    /\ reqs[s].op = "join" /\ reqs[s].pc = "commit"
    /\ player' = Append(player, [role |-> "player", join_order |-> reqs[s].val, score |-> 0,
                                 is_connected |-> TRUE, is_ready |-> FALSE])
    /\ token_to_sid' = Append(token_to_sid, NoId)
    /\ reqs' = [reqs EXCEPT ![s] = Idle]
    /\ UNCHANGED <<game, card, rounds, subs, votes, room, elsewhere>>
    /\ emit_game_state

\* start_game counting the spectators among the players
start_game_check_counting_observers(p) ==
    IF game.creator_id # p THEN "FORBIDDEN"
    ELSE IF game.phase # "lobby" THEN "PHASE_MISMATCH"
    ELSE IF Cardinality(Participants) < 2 THEN "PHASE_MISMATCH"
    ELSE "ok"

\* game_service._assert_creator and game_service.start_game, the validation
start_game_check(p) ==
    IF game.creator_id # p THEN "FORBIDDEN"
    ELSE IF game.phase # "lobby" THEN "PHASE_MISMATCH"
    ELSE IF Cardinality(EligibleSet) < 2 THEN "PHASE_MISMATCH"
    ELSE "ok"

StartGameStart(s, p) ==
    /\ FreeSlot(s)
    /\ reqs' = IF start_game_check(p) = "ok"
               THEN [reqs EXCEPT ![s] = [Idle EXCEPT !.op = "start", !.pc = "commit", !.who = p]]
               ELSE reqs
    /\ UNCHANGED <<game, player, card, rounds, subs, votes, token_to_sid, room, elsewhere, sent>>

\* start_game: game.phase = CARD_CREATION and the commit
StartGameCommit(s) ==
    /\ reqs[s].op = "start" /\ reqs[s].pc = "commit"
    /\ game' = [game EXCEPT !.phase = "card_creation"]
    /\ reqs' = [reqs EXCEPT ![s] = Idle]
    /\ UNCHANGED <<player, card, rounds, subs, votes, token_to_sid, room, elsewhere>>
    /\ emit_game_state

\* the numbers of cards of each type in a request body of POST /cards
CardsData == {[t \in CardType |-> CardsPerType],
              [t \in CardType |-> IF t = "start" THEN CardsPerType + 1
                                  ELSE IF t = "stop" THEN CardsPerType
                                  ELSE CardsPerType - 1]}

\* save_player_cards without the count of the cards of each type
save_player_cards_check_any_counts(p, cards_data) ==
    IF game.phase # "card_creation" THEN "PHASE_MISMATCH"
    ELSE IF is_spectator(p) THEN "FORBIDDEN"
    ELSE "ok"

\* card_service.save_player_cards, the validation
save_player_cards_check(p, cards_data) ==
    IF game.phase # "card_creation" THEN "PHASE_MISMATCH"
    ELSE IF is_spectator(p) THEN "FORBIDDEN"
    ELSE IF \E t \in CardType : cards_data[t] # CardsPerType THEN "VALIDATION_ERROR"
    ELSE "ok"

\* the participants that authored cards or are about to
Authors ==
    {q \in Participants : \E c \in Cards : card[c].creator_id = q}
        \cup {reqs[t].who : t \in {u \in Slots : reqs[u].op = "save"}}

\* the sets of texts of a request body, numbered
Texts == 0..(MaxTexts - 1)

\* the text of the i-th card of player p in the set of texts numbered e
CardText(p, i, e) == e * MaxAuthors * 2 * HandSize + CardOf(p, i)

SaveStart(s, p, cards_data, texts) ==
    /\ FreeSlot(s)
    /\ Cardinality(Authors \cup {p}) <= MaxAuthors
    /\ reqs' = IF save_player_cards_check(p, cards_data) = "ok"
               THEN [reqs EXCEPT ![s] = [Idle EXCEPT !.op = "save", !.pc = "commit",
                                                     !.who = p, !.val = texts]]
               ELSE reqs
    /\ UNCHANGED <<game, player, card, rounds, subs, votes, token_to_sid, room, elsewhere, sent>>

\* the cards that participant p authored
CreatedBy(p) == {c \in Cards : card[c].creator_id = p}

\* save_player_cards without the delete of the cards authored before
SaveCommit_keeping_old(s) ==
    LET p == reqs[s].who
        m == Cardinality(Cards)
    IN
    /\ reqs[s].op = "save" /\ reqs[s].pc = "commit"
    /\ card' = [c \in 1..(m + HandSize) |->
                   IF c > m
                   THEN [NewCard(p, c - m) EXCEPT !.text = CardText(p, c - m, reqs[s].val)]
                   ELSE card[c]]
    /\ reqs' = [reqs EXCEPT ![s] = Idle]
    /\ UNCHANGED <<game, player, rounds, subs, votes, token_to_sid, room, elsewhere>>
    /\ emit_game_state

\* save_player_cards: the cards the player authored before are deleted, the
\* new ones are inserted, held by their author, and committed
SaveCommit(s) ==
    LET p == reqs[s].who
        new == {CardOf(p, i) : i \in 1..HandSize}
    IN
    /\ reqs[s].op = "save" /\ reqs[s].pc = "commit"
    /\ card' = [c \in (Cards \ CreatedBy(p)) \cup new |->
                   IF c \in new
                   THEN [NewCard(p, c - (p - 1) * HandSize)
                            EXCEPT !.text = CardText(p, c - (p - 1) * HandSize, reqs[s].val)]
                   ELSE card[c]]
    /\ reqs' = [reqs EXCEPT ![s] = Idle]
    /\ UNCHANGED <<game, player, rounds, subs, votes, token_to_sid, room, elsewhere>>
    /\ emit_game_state

\* games.mark_ready, the validation
mark_ready_check(p) ==
    IF game.phase # "card_creation" THEN "PHASE_MISMATCH"
    ELSE IF is_spectator(p) THEN "FORBIDDEN"
    ELSE IF Cardinality(CreatedBy(p)) < HandSize THEN "PHASE_MISMATCH"
    ELSE "ok"

ReadyStart(s, p) ==
    /\ FreeSlot(s)
    /\ reqs' = IF mark_ready_check(p) = "ok"
               THEN [reqs EXCEPT ![s] = [Idle EXCEPT !.op = "ready", !.pc = "commit", !.who = p]]
               ELSE reqs
    /\ UNCHANGED <<game, player, card, rounds, subs, votes, token_to_sid, room, elsewhere, sent>>

\* mark_ready: g.player.is_ready = True and the commit
ReadyCommit(s) ==
    /\ reqs[s].op = "ready" /\ reqs[s].pc = "commit"
    /\ player' = [player EXCEPT ![reqs[s].who].is_ready = TRUE]
    /\ reqs' = [reqs EXCEPT ![s] = Idle]
    /\ UNCHANGED <<game, card, rounds, subs, votes, token_to_sid, room, elsewhere>>
    /\ emit_game_state

\* begin_game without the check that every player is ready
begin_game_check_unready(p) ==
    IF game.creator_id # p THEN "FORBIDDEN"
    ELSE IF game.phase # "card_creation" THEN "PHASE_MISMATCH"
    ELSE "ok"

\* games.begin_game, the validation
begin_game_check(p) ==
    IF game.creator_id # p THEN "FORBIDDEN"
    ELSE IF game.phase # "card_creation" THEN "PHASE_MISMATCH"
    ELSE IF \E q \in EligibleSet : ~player[q].is_ready THEN "PHASE_MISMATCH"
    ELSE "ok"

BeginStart(s, p) ==
    /\ FreeSlot(s)
    /\ reqs' = IF begin_game_check(p) = "ok"
               THEN [reqs EXCEPT ![s] = [Idle EXCEPT !.op = "begin", !.pc = "redistribute",
                                                     !.who = p]]
               ELSE reqs
    /\ UNCHANGED <<game, player, card, rounds, subs, votes, token_to_sid, room, elsewhere, sent>>

\* the subsets of S that random.shuffle can bring to the front of a chunk
Chunks(S) ==
    LET k == IF Cardinality(S) < CardsPerType THEN Cardinality(S) ELSE CardsPerType
    IN  {ch \in SUBSET S : Cardinality(ch) = k}

\* card_service.redistribute_cards, one card type: the ways the shuffled list
\* cs of cards is cut into chunks for the players ps, as sets of <<card, player>>
RECURSIVE Deals(_, _)
Deals(ps, cs) ==
    IF ps = <<>> THEN {{}}
    ELSE UNION {{{<<c, Head(ps)>> : c \in ch} \cup rest : rest \in Deals(Tail(ps), cs \ ch)} :
                   ch \in Chunks(cs)}

\* the ways redistribute_cards can deal the cards of type t
DealsOf(t) == Deals(_eligible_players, {c \in Cards : card[c].card_type = t})

\* card_service.redistribute_cards: every card type is shuffled and dealt
redistribute_cards ==
    \E d1 \in DealsOf("start"), d2 \in DealsOf("stop"), d3 \in DealsOf("continue") :
        card' = [c \in Cards |->
                    LET d == {x \in d1 \cup d2 \cup d3 : x[1] = c}
                    IN  IF d = {} THEN card[c]
                        ELSE [card[c] EXCEPT !.holder_id = (CHOOSE x \in d : TRUE)[2],
                                             !.is_played = FALSE]]

\* begin_game: card_service.redistribute_cards and its commit
BeginRedistribute(s) ==
    /\ reqs[s].op = "begin" /\ reqs[s].pc = "redistribute"
    /\ redistribute_cards
    /\ reqs' = [reqs EXCEPT ![s].pc = "phase"]
    /\ UNCHANGED <<game, player, rounds, subs, votes, token_to_sid, room, elsewhere, sent>>

\* begin_game: game.phase = PLAYING and the commit
BeginPhase(s) ==
    /\ reqs[s].op = "begin" /\ reqs[s].pc = "phase"
    /\ game' = [game EXCEPT !.phase = "playing"]
    /\ reqs' = [reqs EXCEPT ![s].pc = "round"]
    /\ UNCHANGED <<player, card, rounds, subs, votes, token_to_sid, room, elsewhere, sent>>

\* round_service.create_first_round
create_first_round ==
    /\ rounds' = _create_round(1)
    /\ game' = [game EXCEPT !.current_round_id = Len(rounds) + 1]

\* begin_game: the first round is created, the hands and the state are emitted
BeginFirstRound(s) ==
    /\ reqs[s].op = "begin" /\ reqs[s].pc = "round"
    /\ create_first_round
    /\ reqs' = [reqs EXCEPT ![s] = Idle]
    /\ UNCHANGED <<player, card, subs, votes, token_to_sid, room, elsewhere>>
    /\ emit_game_state

InitLobby == InitSetup(NPlayers, NSpectators) /\ sent = None

NextSetup ==
    \/ \E s \in Slots : JoinGameStart(s)
    \/ \E s \in Slots : JoinGameCommit(s)
    \/ \E s \in Slots, p \in Participants : StartGameStart(s, p)
    \/ \E s \in Slots : StartGameCommit(s)
    \/ \E s \in Slots, p \in Participants, cards_data \in CardsData :
          SaveStart(s, p, cards_data, 0)
    \/ \E s \in Slots : SaveCommit(s)
    \/ \E s \in Slots, p \in Participants : ReadyStart(s, p)
    \/ \E s \in Slots : ReadyCommit(s)
    \/ \E s \in Slots, p \in Participants : BeginStart(s, p)
    \/ \E s \in Slots : BeginRedistribute(s)
    \/ \E s \in Slots : BeginPhase(s)
    \/ \E s \in Slots : BeginFirstRound(s)

SpecSetup == InitLobby /\ [][NextSetup]_vars

\* the lobby in which the players are still too few for a start
InitSmallLobby == InitSetup(LobbyPlayers, NSpectators) /\ sent = None

SpecLobby == InitSmallLobby /\ [][NextSetup]_vars

\* the game that its creator has just started: the players author their cards
InitAuthoring ==
    /\ game = [phase |-> "card_creation", current_round_id |-> NoId,
               creator_id |-> Creator(NPlayers, NSpectators)]
    /\ player = [p \in 1..(NPlayers + NSpectators) |->
                    [HistPlayers(NPlayers, NSpectators, 1, 1..(NPlayers + NSpectators))[p]
                        EXCEPT !.is_ready = FALSE]]
    /\ card = <<>>
    /\ rounds = <<>>
    /\ subs = {}
    /\ votes = {}
    /\ token_to_sid = [p \in 1..(NPlayers + NSpectators) |-> p]
    /\ room = 1..(NPlayers + NSpectators)
    /\ elsewhere = OtherGame
    /\ sent = None
    /\ reqs = [s \in Slots |-> Idle]

\* authoring, with request bodies that differ in their texts, up to the
\* first round
NextAuthoring ==
    \/ \E s \in Slots, p \in Participants, cards_data \in CardsData, texts \in Texts :
          SaveStart(s, p, cards_data, texts)
    \/ \E s \in Slots : SaveCommit(s)
    \/ \E s \in Slots, p \in Participants : ReadyStart(s, p)
    \/ \E s \in Slots : ReadyCommit(s)
    \/ \E s \in Slots, p \in Participants : BeginStart(s, p)
    \/ \E s \in Slots : BeginRedistribute(s)
    \/ \E s \in Slots : BeginPhase(s)
    \/ \E s \in Slots : BeginFirstRound(s)

SpecAuthoring == InitAuthoring /\ [][NextAuthoring]_vars

-----------------------------------------------------------------------------
(* The game taken up in card_creation when every player has authored its     *)
(* cards and is marked ready: the creator begins the game and the players    *)
(* submit in round 1.                                                        *)

InitReady ==
    /\ game = [phase |-> "card_creation", current_round_id |-> NoId,
               creator_id |-> Creator(NPlayers, NSpectators)]
    /\ player = HistPlayers(NPlayers, NSpectators, 1, 1..(NPlayers + NSpectators))
    /\ card = HistCards(NPlayers, [p \in 1..NPlayers |-> 0])
    /\ rounds = <<>>
    /\ subs = {}
    /\ votes = {}
    /\ token_to_sid = [p \in 1..(NPlayers + NSpectators) |-> p]
    /\ room = 1..(NPlayers + NSpectators)
    /\ elsewhere = OtherGame
    /\ sent = None
    /\ reqs = [s \in Slots |-> Idle]

\* the lowest of a set of card ids, as a set
Lowest(S) == {c \in S : \A d \in S : c <= d}

\* card ids participant p names here: the lowest card of its hand, the lowest
\* card that is not in its hand, and no card
FewCardInputs(p) == Lowest(HeldCards(p)) \cup Lowest(Cards \ HeldCards(p)) \cup {NoId}

NextBegin ==
    \/ \E s \in Slots, p \in Participants : BeginStart(s, p)
    \/ \E s \in Slots : BeginRedistribute(s)
    \/ \E s \in Slots : BeginPhase(s)
    \/ \E s \in Slots : BeginFirstRound(s)
    \/ \E s \in Slots, p \in Participants, rid \in RoundInputs :
           \E c \in FewCardInputs(p) : SubmitStart(s, p, rid, c)
    \/ \E s \in Slots : SubmitCommit(s)
    \/ \E s \in Slots : SubmitCheck(s)

SpecBegin == InitReady /\ [][NextBegin]_vars

-----------------------------------------------------------------------------
(* The delete of the game, POST /finish, at any phase, while votes are cast. *)

\* no games row: the value of game once the row is deleted
NoGame == [phase |-> "deleted", current_round_id |-> NoId, creator_id |-> NoId]

\* games._get_game finds the row
GameExists == game # NoGame

\* game_service.finish_game, the validation: _assert_creator and no look at
\* the phase
finish_game_check(p) ==
    IF game.creator_id # p THEN "FORBIDDEN" ELSE "ok"

FinishStart(s, p) ==
    /\ FreeSlot(s)
    /\ GameExists
    /\ reqs' = IF finish_game_check(p) = "ok"
               THEN [reqs EXCEPT ![s] = [Idle EXCEPT !.op = "finish", !.pc = "commit", !.who = p]]
               ELSE reqs
    /\ UNCHANGED <<game, player, card, rounds, subs, votes, token_to_sid, room, elsewhere, sent>>

\* finish_game with deletes that are not filtered by the game
FinishCommit_every_game(s) ==
    /\ reqs[s].op = "finish" /\ reqs[s].pc = "commit"
    /\ GameExists
    /\ votes' = {}
    /\ subs' = {}
    /\ rounds' = <<>>
    /\ card' = <<>>
    /\ player' = <<>>
    /\ game' = NoGame
    /\ elsewhere' = [player |-> <<>>, card |-> <<>>, rounds |-> <<>>, subs |-> {}, votes |-> {}]
    /\ reqs' = [reqs EXCEPT ![s] = Idle]
    /\ UNCHANGED <<token_to_sid, room, sent>>

\* finish_game: the votes and submissions of the rounds of the game, its
\* rounds, cards and players and the games row are deleted in one commit;
\* emitters._token_to_sid and the room are left as they are
FinishCommit(s) ==
    /\ reqs[s].op = "finish" /\ reqs[s].pc = "commit"
    /\ GameExists
    /\ votes' = {v \in votes : v.round_id \notin RoundIds}
    /\ subs' = {x \in subs : x.round_id \notin RoundIds}
    /\ rounds' = <<>>
    /\ card' = <<>>
    /\ player' = <<>>
    /\ game' = NoGame
    /\ reqs' = [reqs EXCEPT ![s] = Idle]
    /\ UNCHANGED <<token_to_sid, room, elsewhere, sent>>

\* a handler in flight whose game is deleted meanwhile: its next access to a
\* row of the game raises, and nothing is written
Fails(s) ==
    /\ ~GameExists
    /\ reqs[s] # Idle
    /\ reqs' = [reqs EXCEPT ![s] = Idle]
    /\ UNCHANGED <<game, player, card, rounds, subs, votes, token_to_sid, room, elsewhere, sent>>

\* the game in each of its phases before Finished
InitAnyPhase == InitLobby \/ InitAuthoring \/ InitReady \/ Init \/ InitVoting

\* requests come from the participants and from a participant of another game
Requesters == Participants \cup {Outsider}

\* the Vote row of a request in flight is inserted also when the game is
\* deleted by then, where the database does not enforce the foreign key
NextFinish ==
    \/ \E s \in Slots, p \in Requesters : FinishStart(s, p)
    \/ \E s \in Slots : FinishCommit(s)
    \/ \E s \in Slots : Fails(s)
    \/ \E s \in Slots, p \in Participants, rid \in RoundInputs :
           \E c \in VoteCardInputs(rid) : GameExists /\ VoteStart(s, p, rid, c)
    \/ \E s \in Slots : VoteCommit(s)
    \/ \E s \in Slots : GameExists /\ VoteCheck(s)

SpecFinish == InitAnyPhase /\ [][NextFinish]_vars

----------------------------------------------------------------------------
(* Vocabulary of the properties.  Submitting, Voting and Complete are the    *)
(* round phases "submitting", "revealed" and "complete"; AlreadyActed is     *)
(* ALREADY_SUBMITTED.                                                        *)

\* the reachable eligible participants: connected Player-role participants
ReachableEligible(pl) == {p \in DOMAIN pl : pl[p].role = "player" /\ pl[p].is_connected}

\* the handler in slot s takes its last step
Finishes(s, op) == reqs[s].op = op /\ reqs[s].pc # "commit" /\ reqs'[s] = Idle

\* participant p leaves the room (handle_leave_game_room is one step)
Leaves(p) == player[p].is_connected /\ ~player'[p].is_connected /\ reqs' = reqs

ScoresUnchanged == \A p \in Participants : player'[p].score = player[p].score

\* the number of votes for card c in round rid
Tally(rid, c) == Cardinality({v \in VotesOf(rid) : v.card_id = c})

\* the submitted cards of round rid whose tally is the maximum tally
TopCards(rid) ==
    {x.card_id : x \in {y \in SubsOf(rid) :
                           \A z \in SubsOf(rid) : Tally(rid, z.card_id) <= Tally(rid, y.card_id)}}

----------------------------------------------------------------------------
(* C1: resolution executes exactly once per round.  A vote handler or a      *)
(* disconnect handler that finds its round already Complete performs none of *)
(* the side effects of resolution: no score changes, the game phase does not *)
(* change and no round is created.                                           *)
C1_ResolutionExactlyOnce ==
    [][\A s \in Slots :
          LET rid == IF reqs[s].op = "vote" THEN reqs[s].rid ELSE game.current_round_id
          IN  /\ Finishes(s, "vote") \/ Finishes(s, "disconnect")
              /\ rid \in RoundIds
              /\ rounds[rid].phase = "complete"
              => /\ ScoresUnchanged
                 /\ game'.phase = game.phase
                 /\ Len(rounds') = Len(rounds)]_vars

(* C2: the Submitting -> Voting transition of a round is performed exactly   *)
(* once, by an actor that observes the round in Submitting: every step that  *)
(* puts a round into Voting takes it there from Submitting.                  *)
C2_RevealExactlyOnce ==
    [][\A rid \in RoundIds :
          rounds'[rid].phase = "revealed" /\ rounds[rid].phase # "revealed"
          => rounds[rid].phase = "submitting"]_vars

(* C3: after a successful submission the round advances Submitting -> Voting *)
(* exactly when the number of its Submissions is at least the number of      *)
(* connected Player-role participants.                                       *)
C3_SubmissionQuorum ==
    [][\A s \in Slots :
          Finishes(s, "submit") /\ rounds[reqs[s].rid].phase = "submitting"
          => (rounds'[reqs[s].rid].phase = "revealed"
                <=> Cardinality(SubsOf(reqs[s].rid)) >= Cardinality(ReachableEligible(player)))]_vars

(* C4: when a Player-role participant goes from connected to disconnected    *)
(* (socket disconnect or leaving the room) while the current round is in     *)
(* Submitting, some Player remains connected and the round's Submissions are *)
(* at least the connected Players that remain, the round is in Voting when   *)
(* the event has been handled.                                               *)
C4_DisconnectCompletesSubmission ==
    [][LET rid == game.current_round_id
           quorum(pl) == /\ rid \in RoundIds
                         /\ rounds[rid].phase = "submitting"
                         /\ ReachableEligible(pl) # {}
                         /\ Cardinality(SubsOf(rid)) >= Cardinality(ReachableEligible(pl))
       IN  /\ \A s \in Slots :
                 Finishes(s, "disconnect") /\ ~is_spectator(reqs[s].who) /\ quorum(player)
                 => rounds'[rid].phase = "revealed"
           /\ \A p \in Participants :
                 Leaves(p) /\ ~is_spectator(p) /\ quorum(player')
                 => rounds'[rid].phase = "revealed"]_vars

(* C5: when a Player-role participant disconnects while the current round is *)
(* in Voting, some Player remains connected and the round's Votes are at     *)
(* least the connected Players that remain, the round is Complete when the   *)
(* disconnect has been handled, whatever the phase of the game.              *)
C5_DisconnectCompletesVoting ==
    [][\A s \in Slots :
          LET rid == game.current_round_id
          IN  /\ Finishes(s, "disconnect") /\ ~is_spectator(reqs[s].who)
              /\ rid \in RoundIds
              /\ rounds[rid].phase = "revealed"
              /\ ReachableEligible(player) # {}
              /\ Cardinality(VotesOf(rid)) >= Cardinality(ReachableEligible(player))
              => rounds'[rid].phase = "complete"]_vars

(* C6: after a vote is recorded the round is resolved exactly when the       *)
(* number of its Votes is at least the number of connected Player-role       *)
(* participants; spectators are not counted.                                 *)
C6_VotingQuorum ==
    [][\A s \in Slots :
          Finishes(s, "vote") /\ rounds[reqs[s].rid].phase = "revealed"
          => (rounds'[reqs[s].rid].phase = "complete"
                <=> Cardinality(VotesOf(reqs[s].rid)) >= Cardinality(ReachableEligible(player)))]_vars

(* C7: there is at most one Submission per (round, participant).             *)
C7_OneSubmissionPerRoundAndPlayer ==
    \A x, y \in subs : x.round_id = y.round_id /\ x.player_id = y.player_id => x = y

\* a second submit request of a participant passed validation before the
\* first one committed, and is about to insert its row
C7_DuplicateSubmitInFlight ==
    \E s \in Slots :
        /\ reqs[s].op = "submit" /\ reqs[s].pc = "commit"
        /\ \E x \in subs : x.round_id = reqs[s].rid /\ x.player_id = reqs[s].who

(* C8: there is at most one Vote per (round, voter).                         *)
C8_OneVotePerRoundAndVoter ==
    \A v, w \in votes : v.round_id = w.round_id /\ v.voter_id = w.voter_id => v = w

\* a second vote request of a participant passed validation before the first
\* one committed, and is about to insert its row
C8_DuplicateVoteInFlight ==
    \E s \in Slots :
        /\ reqs[s].op = "vote" /\ reqs[s].pc = "commit"
        /\ \E v \in votes : v.round_id = reqs[s].rid /\ v.voter_id = reqs[s].who

(* C9: a submit (vote) by a participant who has a Submission (Vote) in the   *)
(* current round is refused with AlreadyActed, whatever the phase of the     *)
(* round by then.                                                            *)
C9_AlwaysAlreadyActed ==
    /\ \A x \in SubsOf(game.current_round_id) : \A c \in Cards \cup {NoId} :
          submit_card_check(x.player_id, x.round_id, c) = "ALREADY_SUBMITTED"
    /\ \A v \in VotesOf(game.current_round_id) : \A c \in Cards \cup {NoId} :
          record_vote_check(v.voter_id, v.round_id, c) = "ALREADY_SUBMITTED"

(* C10: when a round resolves, the submitter of every submitted card whose   *)
(* tally is the maximum tally gains exactly 1 point, for any number of tied  *)
(* cards, and every other participant's score is unchanged.                  *)
C10_AllTiedCardsScore ==
    [][\A s \in Slots :
          LET rid == reqs[s].rid
          IN  /\ Finishes(s, "vote")
              /\ rounds[rid].phase = "revealed" /\ rounds'[rid].phase = "complete"
              => \A p \in Participants :
                    player'[p].score = player[p].score +
                        (IF \E x \in SubsOf(rid) : x.player_id = p /\ x.card_id \in TopCards(rid)
                         THEN 1 ELSE 0)]_vars

(* C11: a game plays exactly MAX_ROUNDS rounds.  No step creates a round     *)
(* whose ordinal is outside 1..MAX_ROUNDS, and the game becomes Finished in  *)
(* exactly the steps in which the round of ordinal MAX_ROUNDS becomes        *)
(* Complete.                                                                 *)
C11_ExactlySixRounds ==
    [][/\ \A rid \in DOMAIN rounds' \ DOMAIN rounds :
             rounds'[rid].round_number \in 1..MAX_ROUNDS
       /\ (game.phase # "finished" /\ game'.phase = "finished")
             <=> \E rid \in RoundIds : /\ rounds[rid].round_number = MAX_ROUNDS
                                       /\ rounds[rid].phase # "complete"
                                       /\ rounds'[rid].phase = "complete"]_vars

\* some request on the current round is permitted: a submission, a pick or a
\* vote
CanProceed ==
    \E p \in Participants :
        \/ \E c \in Cards : submit_card_check(p, game.current_round_id, c) = "ok"
        \/ \E x \in subs : pick_winner_check(p, game.current_round_id, x) = "ok"
        \/ \E c \in Cards : record_vote_check(p, game.current_round_id, c) = "ok"

(* C12: when every permitted request keeps being sent and nobody             *)
(* disconnects, the game eventually is Finished; and while the game is being *)
(* played and no handler is running, some request on the current round is    *)
(* permitted.                                                                *)
C12_EventuallyFinished ==
    /\ <>(game.phase = "finished")
    /\ [](game.phase \in {"playing", "final_round"} /\ (\A s \in Slots : reqs[s] = Idle)
            => CanProceed)

(* C13: a round that has left Submitting is completed by the votes of the    *)
(* connected eligible participants, and needs the action of no particular    *)
(* participant: while the current round is in Voting, every connected Player *)
(* that has not voted may vote.                                              *)
C13_CompletionNeedsNoParticularParticipant ==
    LET rid == game.current_round_id IN
    rid \in RoundIds /\ rounds[rid].phase = "revealed"
    => \A p \in ReachableEligible(player) :
          (~\E v \in VotesOf(rid) : v.voter_id = p)
          => \E c \in Cards : record_vote_check(p, rid, c) = "ok"

\* the order of the round phases
RoundPhaseRank(ph) == CASE ph = "submitting" -> 1 [] ph = "revealed" -> 2 [] ph = "complete" -> 3

(* C14: the phase of a round only moves forward along Submitting -> Voting   *)
(* -> Complete: no step takes a round to an earlier phase, and a Complete    *)
(* round keeps its phase.                                                    *)
C14_RoundPhaseMonotone ==
    [][\A rid \in RoundIds :
          RoundPhaseRank(rounds'[rid].phase) >= RoundPhaseRank(rounds[rid].phase)]_vars

(* C16: the game has at most one round whose phase is not Complete.          *)
C16_AtMostOneActiveRound ==
    Cardinality({rid \in RoundIds : rounds[rid].phase # "complete"}) <= 1

\* the phases of a game in the order of play; the final round is part of play
GamePhaseRank(ph) ==
    CASE ph = "lobby" -> 1
      [] ph = "card_creation" -> 2
      [] ph \in {"playing", "final_round"} -> 3
      [] ph = "finished" -> 4

(* C15: the game phase only moves forward through Setup, Authoring, Playing  *)
(* and Finished: no step, under any interleaving of the requests, moves the  *)
(* game to an earlier phase.                                                 *)
C15_GamePhaseMonotone ==
    [][GamePhaseRank(game'.phase) >= GamePhaseRank(game.phase)]_vars

\* the handler in slot s takes the redistribution step of begin_game
Redistributes(s) ==
    reqs[s].op = "begin" /\ reqs[s].pc = "redistribute" /\ reqs'[s].pc = "phase"

(* C20: after the redistribution at the transition into Playing every        *)
(* Player-role participant holds exactly HandSize unplayed cards,            *)
(* CardsPerType of each type, and redistribution leaves the number of cards  *)
(* and the author of every card unchanged.                                   *)
C20_RedistributionDealsFullHands ==
    [][\A s \in Slots : Redistributes(s) =>
          /\ DOMAIN card' = DOMAIN card
          /\ \A c \in Cards : card'[c].creator_id = card[c].creator_id
          /\ \A p \in EligibleSet :
                /\ Cardinality({c \in Cards : card'[c].holder_id = p}) = HandSize
                /\ \A t \in CardType :
                      Cardinality({c \in Cards : /\ card'[c].holder_id = p
                                                 /\ ~card'[c].is_played
                                                 /\ card'[c].card_type = t}) = CardsPerType]_vars

\* the snapshot of the current round, when there is one
SnapshotRound == build_game_state_payload.game.current_round[1]

\* what the snapshot says of a participant
PlayerKeys == {"id", "role", "join_order", "score", "is_connected", "is_ready", "card_count"}

(* C17: while the current round is in Submitting the public snapshot holds   *)
(* no card text and nothing that ties a participant to a submitted card: the *)
(* revealed submissions are absent, no winner is named, and of a player only *)
(* the has-submitted flag and the number of held cards are exposed.          *)
C17_SubmittingSnapshotHidesCards ==
    LET rid == game.current_round_id
        snap == build_game_state_payload.game
    IN  rid \in RoundIds /\ rounds[rid].phase = "submitting"
        => /\ \A i \in DOMAIN snap.players : DOMAIN snap.players[i] = PlayerKeys
           /\ SnapshotRound.revealed_submissions = None
           /\ SnapshotRound.vote_status = None
           /\ SnapshotRound.winning_card_ids = {}
           /\ SnapshotRound.winner_player_ids = {}
           /\ \A i \in DOMAIN SnapshotRound.submission_status :
                 /\ DOMAIN SnapshotRound.submission_status[i] = {"player_id", "has_submitted"}
                 /\ SnapshotRound.submission_status[i].has_submitted \in BOOLEAN

\* a round in Submitting in which one player has submitted and another has not
C17_PartlySubmittedRound ==
    LET rid == game.current_round_id
    IN  /\ rid \in RoundIds /\ rounds[rid].phase = "submitting"
        /\ \E i, j \in DOMAIN SnapshotRound.submission_status :
              /\ SnapshotRound.submission_status[i].has_submitted
              /\ ~SnapshotRound.submission_status[j].has_submitted
              /\ SnapshotRound.submission_status[j].player_id # rounds[rid].judge_id
        /\ \E x \in SubsOf(rid) : card[x.card_id].text = x.card_id

(* C18: once the current round has left Submitting every revealed entry of   *)
(* the public snapshot carries the submission's identity, the card's         *)
(* category and text and no submitter, every submission of the round is      *)
(* revealed, and the snapshot names winning participants only while the      *)
(* round is Complete.                                                        *)
C18_RevealedEntriesAnonymous ==
    LET rid == game.current_round_id
    IN  rid \in RoundIds
        => /\ rounds[rid].phase # "submitting"
                => /\ SnapshotRound.revealed_submissions # None
                   /\ \A e \in SnapshotRound.revealed_submissions[1] :
                         /\ DOMAIN e = {"submission_id", "card_id", "card_type", "card_text"}
                         /\ e.card_type = card[e.card_id].card_type
                         /\ e.card_text = card[e.card_id].text
                   /\ \A x \in SubsOf(rid) :
                         \E e \in SnapshotRound.revealed_submissions[1] :
                             e.submission_id = <<rid, x.card_id>>
           /\ SnapshotRound.winner_player_ids # {} => rounds[rid].phase = "complete"

\* the final round is Complete, its cards are revealed and its winner is named
C18_WinnersNamedWhenComplete ==
    LET rid == game.current_round_id
    IN  /\ rid \in RoundIds /\ rounds[rid].phase = "complete"
        /\ SnapshotRound.winner_player_ids # {}
        /\ Cardinality(SnapshotRound.revealed_submissions[1]) >= 2

C21_PlayedCardsStayPlayed ==
    [][/\ game.phase \in {"playing", "final_round", "finished"}
            => \A c \in Cards :
                  card[c].is_played
                  => c \in DOMAIN card' /\ card'[c].is_played /\ card'[c].holder_id = NoId
       /\ \A x, y \in subs' : x.card_id = y.card_id => x = y]_vars

(* C22: in every round in Submitting every Player-role participant that has  *)
(* not yet submitted in the round and names an unplayed card of its hand is  *)
(* accepted: no player is barred by its join order or by being the judge of  *)
(* the round.                                                                *)
C22_EveryPlayerMaySubmit ==
    \A rid \in RoundIds :
        rounds[rid].phase = "submitting"
        => \A p \in EligibleSet :
              (~\E x \in SubsOf(rid) : x.player_id = p)
              => \A c \in HeldCards(p) : submit_card_check(p, rid, c) = "ok"

\* participant p holds card c unplayed
HoldsUnplayed(p, c) == c \in Cards /\ card[c].holder_id = p /\ ~card[c].is_played

(* C23: a submit that names a card which does not exist, is not held by the  *)
(* submitter or is already played fails with InvalidSelection (INVALID_CARD, *)
(* for a request that no earlier validation refuses) and is not taken up,    *)
(* and every Submission that is recorded references a card that its          *)
(* submitter holds unplayed at the moment it is recorded.                    *)
C23_SubmissionsNameHeldCards ==
    [][/\ \A p \in Participants, rid \in RoundIds, c \in Cards \cup {NoId} :
             ~HoldsUnplayed(p, c)
             => /\ submit_card_check(p, rid, c) # "ok"
                /\ submit_card_check(p, rid, NoId) = "INVALID_CARD"
                      => submit_card_check(p, rid, c) = "INVALID_CARD"
       /\ \A s \in Slots :
             reqs[s] = Idle /\ reqs'[s].op = "submit"
             => HoldsUnplayed(reqs'[s].who, reqs'[s].cid)
       /\ \A x \in subs' \ subs : HoldsUnplayed(x.player_id, x.card_id)]_vars

(* C24: a vote is accepted exactly when the round is in Voting, the          *)
(* participant has no Vote in the round and the card is among the round's    *)
(* Submissions, in any round of the game and not only the last one; and      *)
(* every recorded Vote references a card submitted in the same round.        *)
C24_VoteAcceptedInAnyVotingRound ==
    /\ \A rid \in RoundIds, p \in Participants, c \in Cards \cup {NoId} :
          record_vote_check(p, rid, c) = "ok"
          <=> /\ rounds[rid].phase = "revealed"
              /\ ~\E v \in VotesOf(rid) : v.voter_id = p
              /\ \E x \in SubsOf(rid) : x.card_id = c
    /\ \A v \in votes : \E x \in SubsOf(v.round_id) : x.card_id = v.card_id

(* C25: when a round has advanced by quorum while a participant was away, a  *)
(* later submit (for a round that has left Submitting) or vote (for a round  *)
(* that is Complete) of that participant for the round fails with            *)
(* PhaseMismatch and changes no state: no such request is taken up.          *)
C25_LateRequestsFailWithPhaseMismatch ==
    [][\A rid \in RoundIds, p \in Participants :
          /\ rounds[rid].phase # "submitting"
                => \A c \in Cards \cup {NoId} : submit_card_check(p, rid, c) = "PHASE_MISMATCH"
          /\ rounds[rid].phase = "complete"
                => \A c \in Cards \cup {NoId} : record_vote_check(p, rid, c) = "PHASE_MISMATCH"
          /\ \A s \in Slots :
                /\ reqs[s] = Idle /\ reqs'[s].who = p /\ reqs'[s].rid = rid
                /\ reqs'[s].op \in {"submit", "vote"}
                => rounds[rid].phase = IF reqs'[s].op = "submit" THEN "submitting"
                                       ELSE "revealed"]_vars

\* the final round was completed by the votes of the others while a
\* participant that has not voted was out of the room; the participant is back
C25_CompletedInAbsence ==
    \E p \in Participants :
        LET rid == game.current_round_id IN
        /\ rid \in RoundIds /\ rounds[rid].phase = "complete"
        /\ VotesOf(rid) # {}
        /\ ~\E v \in VotesOf(rid) : v.voter_id = p
        /\ player[p].is_connected /\ token_to_sid[p] # NoId
        /\ \A s \in Slots : reqs[s] = Idle

\* participant p connects or reconnects (handle_join_game_room is one step)
Joins(p) == ~player[p].is_connected /\ player'[p].is_connected

(* C26: a connect or reconnect changes only the connectivity of that         *)
(* participant: no quorum is re-evaluated, and every round phase, the game   *)
(* phase and all submissions, votes, cards and scores stay as they are.      *)
C26_ReconnectChangesConnectivityOnly ==
    [][\A p \in Participants :
          Joins(p)
          => /\ game' = game /\ rounds' = rounds /\ subs' = subs /\ votes' = votes
             /\ card' = card /\ reqs' = reqs
             /\ player' = [player EXCEPT ![p].is_connected = TRUE]
             /\ \A q \in Participants \ {p} : token_to_sid'[q] = token_to_sid[q]]_vars

\* a participant is back in the room before the handler of its disconnect has
\* re-checked the round, in which every other participant in the room has voted
C26_BackBeforeRecheck ==
    \E s \in Slots :
        LET p == reqs[s].who
            rid == game.current_round_id
        IN  /\ reqs[s].op = "disconnect" /\ reqs[s].pc = "recheck"
            /\ player[p].is_connected /\ token_to_sid[p] = p
            /\ rid \in RoundIds /\ rounds[rid].phase = "revealed"
            /\ \A q \in InRoom \ {p} : \E v \in VotesOf(rid) : v.voter_id = q
            /\ ~\E v \in VotesOf(rid) : v.voter_id = p

\* the committed tables
tables == <<game, player, card, rounds, subs, votes>>

(* C27: every mutating operation is all-or-nothing: its writes are committed *)
(* together, so no step commits writes of a handler that has further writes  *)
(* of the same operation still to make, and no other actor can observe a     *)
(* state that holds only part of an operation's writes.                      *)
C27_OperationsAreAllOrNothing ==
    [][\A s \in Slots :
          tables' # tables /\ reqs'[s] # reqs[s] => reqs'[s] = Idle]_vars

\* the handler in slot s takes up a request of kind op
TakesUp(s, op) == reqs[s] = Idle /\ reqs'[s].op = op

(* C28: the game goes from Authoring to Playing only through a begin request *)
(* of the creator, which is taken up only while the game is in Authoring and *)
(* every Player-role participant is ready and has exactly HandSize authored  *)
(* cards; the request redistributes the cards, then sets Playing, then       *)
(* creates round 1 in Submitting as the active round; no other request       *)
(* leaves Authoring or creates a round.                                      *)
C28_BeginOnlyByCreatorWhenAllReady ==
    [][/\ \A s \in Slots :
             TakesUp(s, "begin")
             => /\ reqs'[s].who = game.creator_id
                /\ game.phase = "card_creation"
                /\ \A q \in EligibleSet :
                      player[q].is_ready /\ Cardinality(CreatedBy(q)) = HandSize
                /\ reqs'[s].pc = "redistribute"
       /\ game.phase = "card_creation" /\ game'.phase # "card_creation"
             => /\ game'.phase = "playing"
                /\ \E s \in Slots : /\ reqs[s].op = "begin" /\ reqs[s].pc = "phase"
                                     /\ reqs'[s].pc = "round"
       /\ rounds' # rounds
             => /\ \E s \in Slots : /\ reqs[s].op = "begin" /\ reqs[s].pc = "round"
                                     /\ reqs'[s] = Idle
                /\ Len(rounds') = Len(rounds) + 1
                /\ rounds'[Len(rounds')].round_number = 1
                /\ rounds'[Len(rounds')].phase = "submitting"
                /\ game'.current_round_id = Len(rounds')
                /\ \A rid \in RoundIds : rounds'[rid] = rounds[rid]]_vars

\* the game has begun: the hands are dealt, some card went to a player that
\* did not author it, and round 1 is the active round, in Submitting
C28_GameBegun ==
    /\ game.phase = "playing" /\ game.current_round_id = 1
    /\ Len(rounds) = 1 /\ rounds[1].round_number = 1 /\ rounds[1].phase = "submitting"
    /\ \A s \in Slots : reqs[s] = Idle
    /\ \E c \in Cards : card[c].holder_id # card[c].creator_id
    /\ \A q \in EligibleSet : player[q].is_ready /\ Cardinality(HeldCards(q)) = HandSize

(* C29: the game goes from Setup to Authoring only through a start request   *)
(* of the creator, which is taken up only while the game is in Setup and has *)
(* at least 2 Player-role participants, spectators not counted; a request of *)
(* another participant is refused as Forbidden, a request in another phase   *)
(* or with fewer players is refused, and a refusal leaves the phase as it is.*)
C29_StartOnlyByCreatorWithTwoPlayers ==
    [][/\ \A s \in Slots :
             TakesUp(s, "start")
             => /\ reqs'[s].who = game.creator_id
                /\ game.phase = "lobby"
                /\ Cardinality({p \in Participants : player[p].role = "player"}) >= 2
                /\ game' = game
       /\ game.phase = "lobby" /\ game'.phase # "lobby"
             => /\ game' = [game EXCEPT !.phase = "card_creation"]
                /\ \E s \in Slots : reqs[s].op = "start" /\ reqs'[s] = Idle
       /\ \A p \in Participants :
             /\ p # game.creator_id => start_game_check(p) = "FORBIDDEN"
             /\ /\ p = game.creator_id
                /\ \/ game.phase # "lobby"
                   \/ Cardinality({q \in Participants : player[q].role = "player"}) < 2
                => start_game_check(p) = "PHASE_MISMATCH"]_vars

\* the game was started once a second player had joined the creator, a
\* spectator, and the first player
C29_StartedWithTwoPlayers ==
    /\ game.phase = "card_creation"
    /\ player[game.creator_id].role = "spectator"
    /\ Cardinality({p \in Participants : player[p].role = "player"}) = 2
    /\ Cardinality(Participants) = 3
    /\ \A s \in Slots : reqs[s] = Idle

(* C30: a request to author cards is accepted only while the game is in      *)
(* Authoring, from a Player, with exactly 2 cards of each of the three       *)
(* categories, 6 in all; a request in another phase, of a spectator or with  *)
(* another distribution is refused, and a refused request creates, deletes   *)
(* and modifies no card: during setup the cards change only when an accepted *)
(* request commits, which leaves its author 6 own cards, 2 of each category, *)
(* and the cards of the others as they were, or when a begin redistributes.  *)
C30_AuthoringAcceptsOnlyTwoOfEach ==
    [][/\ \A p \in Participants : \A cards_data \in CardsData :
             save_player_cards_check(p, cards_data) = "ok"
             <=> /\ game.phase = "card_creation"
                 /\ player[p].role = "player"
                 /\ \A t \in CardType : cards_data[t] = 2
                 /\ cards_data["start"] + cards_data["stop"] + cards_data["continue"] = 6
       /\ \A s \in Slots :
             TakesUp(s, "save")
             => /\ game.phase = "card_creation"
                /\ player[reqs'[s].who].role = "player"
                /\ card' = card
       /\ card' # card
             => \E s \in Slots :
                  /\ reqs[s].op \in {"save", "begin"}
                  /\ reqs'[s] # reqs[s]
       /\ \A s \in Slots :
             reqs[s].op = "save" /\ reqs'[s] = Idle
             => LET p == reqs[s].who
                    own == {c \in DOMAIN card' : card'[c].creator_id = p}
                IN /\ Cardinality(own) = 6
                   /\ \A t \in CardType :
                         Cardinality({c \in own : card'[c].card_type = t}) = 2
                   /\ \A c \in own : card'[c].holder_id = p /\ ~card'[c].is_played
                   /\ \A c \in Cards :
                         card[c].creator_id # p => c \in DOMAIN card' /\ card'[c] = card[c]]_vars

\* a player authored their six cards during Authoring
C30_PlayerAuthoredSixCards ==
    /\ game.phase = "card_creation"
    /\ \A s \in Slots : reqs[s] = Idle
    /\ \E p \in Participants :
          /\ player[p].role = "player"
          /\ ~player[p].is_ready
          /\ Cardinality(CreatedBy(p)) = 6
          /\ \A c \in CreatedBy(p) : card[c].holder_id = p

(* C31: authoring again replaces: whenever an accepted request to author     *)
(* cards commits, also one of a participant that authored cards before, the  *)
(* participant is the author of exactly 6 cards, which carry the texts of    *)
(* that request, and the cards of every other author are as they were; so a  *)
(* participant is at all times the author of no card or of exactly 6.        *)
C31_AuthoringAgainReplaces ==
    [][/\ \A s \in Slots :
             reqs[s].op = "save" /\ reqs'[s] = Idle
             => LET p == reqs[s].who
                    own == {c \in DOMAIN card' : card'[c].creator_id = p}
                IN /\ Cardinality(own) = 6
                   /\ {card'[c].text : c \in own}
                        = {CardText(p, i, reqs[s].val) : i \in 1..6}
                   /\ {c \in DOMAIN card' : card'[c].creator_id # p}
                        = {c \in Cards : card[c].creator_id # p}
                   /\ \A c \in Cards : card[c].creator_id # p => card'[c] = card[c]
       /\ \A p \in Participants :
             Cardinality({c \in DOMAIN card' : card'[c].creator_id = p}) \in {0, 6}]_vars

\* a player is the author of six cards of one request, still in Authoring,
\* while the other player has authored too and a further accepted request of
\* the first, with other texts, is about to replace them
C31_SecondRequestAccepted ==
    /\ game.phase = "card_creation"
    /\ \E s \in Slots :
          /\ reqs[s].op = "save" /\ reqs[s].pc = "commit"
          /\ Cardinality(CreatedBy(reqs[s].who)) = 6
          /\ \A c \in CreatedBy(reqs[s].who) :
                card[c].text # CardText(reqs[s].who, c - (reqs[s].who - 1) * HandSize, reqs[s].val)
          /\ \E q \in Participants \ {reqs[s].who} : Cardinality(CreatedBy(q)) = 6

(* C32: in whatever phase the game is, a delete request of its creator is    *)
(* accepted and removes the games row with every participant, card, round,   *)
(* submission and vote of the game in one commit; a delete request of anyone *)
(* else, a participant of another game included, is refused as Forbidden and *)
(* removes nothing; no row of another game is ever removed, and the rows of  *)
(* the game are removed by nothing but the delete.                           *)
C32_DeleteByCreatorRemovesTheGameOnly ==
    [][/\ GameExists
          => \A p \in Requesters :
                finish_game_check(p) = IF p = game.creator_id THEN "ok" ELSE "FORBIDDEN"
       /\ \A s \in Slots :
             TakesUp(s, "finish")
             => reqs'[s].who = game.creator_id /\ tables' = tables
       /\ \A s \in Slots :
             GameExists /\ reqs[s].op = "finish" /\ reqs'[s] = Idle
             => /\ game' = NoGame
                /\ player' = <<>> /\ card' = <<>> /\ rounds' = <<>>
                /\ subs' = {} /\ votes' = {}
       /\ \/ game' = NoGame
          \/ /\ DOMAIN player \subseteq DOMAIN player'
             /\ DOMAIN card \subseteq DOMAIN card'
             /\ DOMAIN rounds \subseteq DOMAIN rounds'
             /\ subs \subseteq subs' /\ votes \subseteq votes'
       /\ GameExists /\ game' = NoGame
             => \E s \in Slots : reqs[s].op = "finish" /\ reqs[s].who = game.creator_id
                                 /\ reqs'[s] = Idle
       /\ elsewhere' = elsewhere]_vars

\* the game is deleted with all of its rows after votes were cast in its
\* final round, and the other game is as it was
C32_DeletedWhileVoting ==
    /\ game = NoGame
    /\ player = <<>> /\ card = <<>> /\ rounds = <<>> /\ subs = {} /\ votes = {}
    /\ elsewhere = OtherGame
    /\ \E s \in Slots : reqs[s].op = "vote" /\ reqs[s].pc = "check"

(* C33: once the current round is resolved, the public snapshot reports its  *)
(* winners: the card and the participant that the judge's pick awarded the    *)
(* point are among the winning card ids and the winner participant ids, and  *)
(* both are non-empty when the tally of the votes awarded a point.           *)
C33_ResolvedRoundNamesItsWinners ==
    \A rid \in RoundIds :
        rid = game.current_round_id /\ rounds[rid].phase = "complete"
        => LET d == current_round_data[1] IN
           /\ rounds[rid].winner_id # NoId
                => /\ rounds[rid].winning_card_id \in d.winning_card_ids
                   /\ rounds[rid].winner_id \in d.winner_player_ids
           /\ winning_submissions(rid) # {}
                => d.winning_card_ids # {} /\ d.winner_player_ids # {}

C36_SnapshotWinnersAreTheScorers ==
    [][\A rid \in RoundIds :
          (rounds[rid].phase # "complete" /\ rounds'[rid].phase = "complete"
              /\ game'.current_round_id = rid)
          => build_game_state_payload'.game.current_round[1].winner_player_ids
                 = {p \in Participants : player'[p].score > player[p].score}]_vars

(* C37: no action writes into a game in the name of a participant of another  *)
(* game: every card's author, every submission's player and every vote's     *)
(* voter is a participant of the game that owns the card or the round.       *)
C37_RowsNameParticipantsOfTheirGame ==
    /\ \A c \in Cards : card[c].creator_id \in Participants
    /\ \A x \in subs : x.player_id \in Participants
    /\ \A v \in votes : v.voter_id \in Participants
    /\ \A c \in DOMAIN elsewhere.card :
           elsewhere.card[c].creator_id \in DOMAIN elsewhere.player
    /\ \A x \in elsewhere.subs : x.player_id \in DOMAIN elsewhere.player
    /\ \A v \in elsewhere.votes : v.voter_id \in DOMAIN elsewhere.player

(* C38: from the start of Playing on, every Player holds as many unplayed    *)
(* cards as 6 minus the number of Submissions recorded for that Player, and  *)
(* a card is played, with no holder, exactly when one Submission references  *)
(* it.                                                                       *)
C38_HandsMatchSubmissions ==
    game.phase \in {"playing", "final_round", "finished"}
    => /\ \A p \in Participants :
              ~is_spectator(p)
              => Cardinality({c \in Cards : card[c].holder_id = p /\ ~card[c].is_played})
                    = HandSize - Cardinality({x \in subs : x.player_id = p})
       /\ \A c \in Cards :
              (card[c].is_played /\ card[c].holder_id = NoId)
              <=> Cardinality({x \in subs : x.card_id = c}) = 1

(* C39: once the game has left Setup (the lobby), a join request fails with  *)
(* PhaseMismatch and no step adds a participant or changes a participant's   *)
(* role, also while a join and the creator's start are in flight together.   *)
C39_ParticipantsFixedAfterSetup ==
    [][game.phase # "lobby"
          => /\ join_game_check = "PHASE_MISMATCH"
             /\ DOMAIN player' = DOMAIN player
             /\ \A p \in Participants : player'[p].role = player[p].role]_vars

(* C40: after any sequence of join-room, leave-room and disconnect events,   *)
(* a second socket of the same participant included, a participant is        *)
(* marked connected exactly when at least one socket that joined the room    *)
(* for them is still open and in the room.                                   *)
C40_ConnectedIffSomeSocketJoined ==
    \A p \in Participants :
        player[p].is_connected <=> \E sid \in Sockets(p) : sid \in room

====
